---- MODULE Spec2Model ----
(***************************************************************************)
(* A model of the command-line calculator: the operation registry, the     *)
(* Calculation value and its factory, the CalculationHistory, the          *)
(* InputValidator and the Calculator REPL loop.                            *)
(*                                                                         *)
(* Text is a sequence of one-character strings, so that strip, split,      *)
(* lower and float act on characters as the Python built-ins do.  A float  *)
(* is a pair <<n, d>>: the reduced fraction n/d with d > 0 for a finite    *)
(* value, <<1, 0>> for inf, <<-1, 0>> for -inf and <<0, 0>> for NaN.       *)
(* Python's None, where a float may stand, is the empty tuple.             *)
(***************************************************************************)
EXTENDS Integers, Sequences, FiniteSets, TLC

VARIABLES
    heap,       \* the list objects of the program: heap[id] is the content of list id
    history,    \* Calculator.history, a CalculationHistory object
    running,    \* Calculator.running
    pc,         \* where the program is: "init", "loop" (in run's while), "done", "api"
    remaining,  \* the lines standard input still holds before end-of-input
    line,       \* the text the last input() returned
    raised,     \* what the last input() raised: "none" when it returned a line,
                \* "unread" as long as input() was not called
    out,        \* what the last step printed
    held,       \* the list a caller of get_history holds (0: none)
    call,       \* the function or method a caller invoked last
    log,        \* the calculations added since the history was created or cleared
    before,     \* the content of the history's list when the last step began
    args,       \* the arguments of the function a caller invoked last
    ret,        \* what that call did: the value it returned or the exception it raised
    obj,        \* the Calculation a caller holds or the factory made in the last pass
                \* of the loop: <<>> (none) or <<c>>
    given,      \* the result argument the constructor of that Calculation was given
    calls       \* the compute invocations made for that Calculation since it exists

vars ==
    <<heap, history, running, pc, remaining, line, raised, out, held, call, log, before,
      args, ret, obj, given, calls>>

\* The number of lines the input stream holds before end-of-input, at most.
MaxLines == 3

\* F(v) with the argument v evaluated once, before the call: Python passes
\* arguments by value.
Bind(v, F(_)) == CHOOSE y \in {F(x) : x \in {v}} : TRUE

(***************************************************************************)
(* Text built-ins                                                          *)
(***************************************************************************)
whitespace == {" ", "\t"}

ascii_uppercase ==
    <<"A", "B", "C", "D", "E", "F", "G", "H", "I", "J", "K", "L", "M",
      "N", "O", "P", "Q", "R", "S", "T", "U", "V", "W", "X", "Y", "Z">>

ascii_lowercase ==
    <<"a", "b", "c", "d", "e", "f", "g", "h", "i", "j", "k", "l", "m",
      "n", "o", "p", "q", "r", "s", "t", "u", "v", "w", "x", "y", "z">>

lowerChar(c) ==
    IF \E i \in 1..Len(ascii_uppercase) : ascii_uppercase[i] = c
    THEN ascii_lowercase[CHOOSE i \in 1..Len(ascii_uppercase) : ascii_uppercase[i] = c]
    ELSE c

RECURSIVE lower(_)
lower(s) ==
    IF s = <<>> THEN <<>> ELSE <<lowerChar(Head(s))>> \o lower(Tail(s))

RECURSIVE lstrip(_)
lstrip(s) ==
    IF s # <<>> /\ Head(s) \in whitespace THEN lstrip(Tail(s)) ELSE s

RECURSIVE rstrip(_)
rstrip(s) ==
    IF s # <<>> /\ s[Len(s)] \in whitespace
    THEN rstrip(SubSeq(s, 1, Len(s) - 1))
    ELSE s

strip(s) == rstrip(lstrip(s))

\* str.split(): s is scanned left to right, cur is the token being read and
\* acc the tokens read; runs of whitespace separate tokens and yield none.
RECURSIVE splitFrom(_, _, _)
splitFrom(s, cur, acc) ==
    IF s = <<>>
    THEN IF cur = <<>> THEN acc ELSE Append(acc, cur)
    ELSE IF Head(s) \in whitespace
         THEN splitFrom(Tail(s), <<>>, IF cur = <<>> THEN acc ELSE Append(acc, cur))
         ELSE splitFrom(Tail(s), Append(cur, Head(s)), acc)

split(s) == splitFrom(s, <<>>, <<>>)

(***************************************************************************)
(* Floats                                                                  *)
(***************************************************************************)
None == <<>>

inf == <<1, 0>>
neg_inf == <<-1, 0>>
nan == <<0, 0>>

Abs(n) == IF n < 0 THEN -n ELSE n

RECURSIVE GCD(_, _)
GCD(a, b) == IF b = 0 THEN a ELSE GCD(b, a % b)

\* The float n/d (d # 0) in reduced form.
Frac(n, d) ==
    LET g == GCD(Abs(n), Abs(d))
        s == IF d < 0 THEN -1 ELSE 1
    IN  <<(s * n) \div g, (s * d) \div g>>

IsFinite(x) == x[2] # 0

\* == on floats: NaN equals nothing, itself included.
FloatEq(x, y) == x # nan /\ y # nan /\ x = y

decimal_digits == <<"0", "1", "2", "3", "4", "5", "6", "7", "8", "9">>

IsDigit(c) == \E i \in 1..10 : decimal_digits[i] = c

DigitVal(c) == (CHOOSE i \in 1..10 : decimal_digits[i] = c) - 1

AllDigits(s) == \A i \in 1..Len(s) : IsDigit(s[i])

RECURSIVE DecVal(_)
DecVal(s) ==
    IF s = <<>> THEN 0 ELSE 10 * DecVal(SubSeq(s, 1, Len(s) - 1)) + DigitVal(s[Len(s)])

RECURSIVE Pow10(_)
Pow10(k) == IF k = 0 THEN 1 ELSE 10 * Pow10(k - 1)

\* A decimal literal: ip the characters before the point, fp those after it.
float_decimal(sgn, ip, fp, points) ==
    IF points <= 1 /\ Len(ip) + Len(fp) >= 1 /\ AllDigits(ip) /\ AllDigits(fp)
    THEN [exc |-> "none",
          val |-> Frac(sgn * (DecVal(ip) * Pow10(Len(fp)) + DecVal(fp)), Pow10(Len(fp)))]
    ELSE [exc |-> "ValueError", val |-> None]

float_pointed(sgn, body, dots) ==
    IF dots = {}
    THEN float_decimal(sgn, body, <<>>, 0)
    ELSE float_decimal(sgn,
                       SubSeq(body, 1, (CHOOSE i \in dots : \A j \in dots : i <= j) - 1),
                       SubSeq(body, (CHOOSE i \in dots : \A j \in dots : i <= j) + 1, Len(body)),
                       Cardinality(dots))

\* The float x * 10^e, for a mantissa x of a few digits: beyond the range
\* of a double the value is inf (or -inf), below it 0.0.
float_scale(x, e) ==
    IF x[1] = 0 THEN x
    ELSE IF e > 400 THEN (IF x[1] > 0 THEN inf ELSE neg_inf)
    ELSE IF e < -400 THEN <<0, 1>>
    ELSE IF e >= 0 THEN Frac(x[1] * Pow10(e), x[2])
    ELSE Frac(x[1], x[2] * Pow10(-e))

\* mantissa is what reading the mantissa did; digits the exponent's digits.
float_exponent(mantissa, esgn, digits) ==
    IF mantissa.exc # "none" \/ digits = <<>> \/ ~AllDigits(digits)
    THEN [exc |-> "ValueError", val |-> None]
    ELSE [exc |-> "none", val |-> float_scale(mantissa.val, esgn * DecVal(digits))]

\* A literal with an exponent: body[p] is its first e.
float_scientific(sgn, body, p) ==
    IF p < Len(body) /\ body[p + 1] \in {"-", "+"}
    THEN float_exponent(
             float_pointed(sgn, SubSeq(body, 1, p - 1),
                           {i \in 1..(p - 1) : body[i] = "."}),
             IF body[p + 1] = "-" THEN -1 ELSE 1,
             SubSeq(body, p + 2, Len(body)))
    ELSE float_exponent(
             float_pointed(sgn, SubSeq(body, 1, p - 1),
                           {i \in 1..(p - 1) : body[i] = "."}),
             1,
             SubSeq(body, p + 1, Len(body)))

float_signed(sgn, body, low) ==
    IF low \in {<<"i", "n", "f">>, <<"i", "n", "f", "i", "n", "i", "t", "y">>}
    THEN [exc |-> "none", val |-> IF sgn = 1 THEN inf ELSE neg_inf]
    ELSE IF low = <<"n", "a", "n">>
    THEN [exc |-> "none", val |-> nan]
    ELSE IF \E i \in 1..Len(low) : low[i] = "e"
    THEN float_scientific(sgn, body, CHOOSE i \in 1..Len(low) :
                                         low[i] = "e" /\ \A j \in 1..(i - 1) : low[j] # "e")
    ELSE float_pointed(sgn, body, {i \in 1..Len(body) : body[i] = "."})

float_stripped(s) ==
    IF s # <<>> /\ Head(s) \in {"-", "+"}
    THEN Bind(lower(Tail(s)),
              LAMBDA low : float_signed(IF Head(s) = "-" THEN -1 ELSE 1, Tail(s), low))
    ELSE Bind(lower(s), LAMBDA low : float_signed(1, s, low))

\* float(text): surrounding whitespace is dropped; an optional sign, then
\* inf, infinity or nan in any letter case, or a decimal literal with at
\* least one digit and at most one point, and an optional exponent.  Digit
\* separators are not part of the modelled input alphabet.
float(text) == Bind(strip(text), LAMBDA s : float_stripped(s))

RECURSIVE NatStr(_)
NatStr(n) ==
    IF n < 10 THEN <<decimal_digits[n + 1]>>
    ELSE NatStr(n \div 10) \o <<decimal_digits[(n % 10) + 1]>>

\* The digits of r/d after the point (0 <= r < d), k of them at most: the
\* expansion of a float with few decimals terminates before k runs out.
RECURSIVE FracDigits(_, _, _)
FracDigits(r, d, k) ==
    IF r = 0 \/ k = 0 THEN <<>>
    ELSE <<decimal_digits[((10 * r) \div d) + 1]>> \o FracDigits((10 * r) % d, d, k - 1)

\* str(x) of a float: 8.0, 2.5, -1.5 (repr keeps 17 significant digits at most).
float_str(x) ==
    IF x = inf THEN <<"i", "n", "f">>
    ELSE IF x = neg_inf THEN <<"-", "i", "n", "f">>
    ELSE IF x = nan THEN <<"n", "a", "n">>
    ELSE LET n == Abs(x[1])
             d == x[2]
             f == FracDigits(n % d, d, 16)
         IN  (IF x[1] < 0 THEN <<"-">> ELSE <<>>)
             \o NatStr(n \div d) \o <<".">> \o (IF f = <<>> THEN <<"0">> ELSE f)

(***************************************************************************)
(* The objects a caller may pass where a number is expected: the type of   *)
(* the object and its value, a tuple.                                      *)
(***************************************************************************)
PyFloat(x) == [val |-> x, type |-> "float"]

PyInt(n) == [val |-> <<n>>, type |-> "int"]

PyStr(s) == [val |-> s, type |-> "str"]

PyNone == [val |-> <<>>, type |-> "NoneType"]

\* []
PyList == [val |-> <<>>, type |-> "list"]

\* {}
PyDict == [val |-> <<>>, type |-> "dict"]

\* complex(re, im): the two floats, one after the other
PyComplex(re, im) == [val |-> re \o im, type |-> "complex"]

\* type(x).__name__
type_name(x) ==
    CASE x.type = "float" -> <<"f", "l", "o", "a", "t">>
      [] x.type = "int" -> <<"i", "n", "t">>
      [] x.type = "bool" -> <<"b", "o", "o", "l">>
      [] x.type = "str" -> <<"s", "t", "r">>
      [] x.type = "NoneType" -> <<"N", "o", "n", "e", "T", "y", "p", "e">>
      [] x.type = "list" -> <<"l", "i", "s", "t">>
      [] x.type = "dict" -> <<"d", "i", "c", "t">>
      [] x.type = "complex" -> <<"c", "o", "m", "p", "l", "e", "x">>

\* float(x) of a number x: an int n becomes the float n.0.
float_number(x) == IF x.type = "float" THEN x.val ELSE <<x.val[1], 1>>

(***************************************************************************)
(* Exceptions: a call returns a record whose exc field is "none" or the    *)
(* class of the exception it raised, and msg the exception's message.      *)
(***************************************************************************)
Msg(text, arg, avail) == [text |-> text, arg |-> arg, avail |-> avail]

NoMsg == Msg("", <<>>, {})

(***************************************************************************)
(* app/operation/operations.py                                             *)
(***************************************************************************)
\* An object is its class and its identity: == on objects compares both,
\* as Python's "is" compares identities.
_addition == [cls |-> "Addition", id |-> 1]
_subtraction == [cls |-> "Subtraction", id |-> 2]
_multiplication == [cls |-> "Multiplication", id |-> 3]
_division == [cls |-> "Division", id |-> 4]

symbol(operation) ==
    CASE operation.cls = "Addition" -> "+"
      [] operation.cls = "Subtraction" -> "-"
      [] operation.cls = "Multiplication" -> "*"
      [] operation.cls = "Division" -> "/"

Addition_compute(operand_a, operand_b) ==
    [exc |-> "none",
     val |-> Frac(operand_a[1] * operand_b[2] + operand_b[1] * operand_a[2],
                  operand_a[2] * operand_b[2]),
     msg |-> NoMsg]

Subtraction_compute(operand_a, operand_b) ==
    [exc |-> "none",
     val |-> Frac(operand_a[1] * operand_b[2] - operand_b[1] * operand_a[2],
                  operand_a[2] * operand_b[2]),
     msg |-> NoMsg]

Multiplication_compute(operand_a, operand_b) ==
    [exc |-> "none",
     val |-> Frac(operand_a[1] * operand_b[1], operand_a[2] * operand_b[2]),
     msg |-> NoMsg]

\* Division as if a zero divisor gave infinity instead of raising.
Division_compute_unchecked(operand_a, operand_b) ==
    [exc |-> "none",
     val |-> IF FloatEq(operand_b, <<0, 1>>) THEN inf
             ELSE Frac(operand_a[1] * operand_b[2], operand_a[2] * operand_b[1]),
     msg |-> NoMsg]

\* Division that takes 0 / 0 for a value.
Division_compute_nonzero(operand_a, operand_b) ==
    IF FloatEq(operand_b, <<0, 1>>) /\ ~FloatEq(operand_a, <<0, 1>>)
    THEN [exc |-> "ZeroDivisionError",
          val |-> None, msg |-> Msg("Cannot divide by zero", <<>>, {})]
    ELSE [exc |-> "none",
          val |-> IF FloatEq(operand_b, <<0, 1>>) THEN nan
                  ELSE Frac(operand_a[1] * operand_b[2], operand_a[2] * operand_b[1]),
          msg |-> NoMsg]

\* operand_a / operand_b raises ZeroDivisionError when operand_b == 0; the
\* handler raises it again with its own message.
Division_compute(operand_a, operand_b) ==
    IF FloatEq(operand_b, <<0, 1>>)
    THEN [exc |-> "ZeroDivisionError",
          val |-> None, msg |-> Msg("Cannot divide by zero", <<>>, {})]
    ELSE [exc |-> "none",
          val |-> Frac(operand_a[1] * operand_b[2], operand_a[2] * operand_b[1]),
          msg |-> NoMsg]

compute(operation, operand_a, operand_b) ==
    CASE operation.cls = "Addition" -> Addition_compute(operand_a, operand_b)
      [] operation.cls = "Subtraction" -> Subtraction_compute(operand_a, operand_b)
      [] operation.cls = "Multiplication" -> Multiplication_compute(operand_a, operand_b)
      [] operation.cls = "Division" -> Division_compute(operand_a, operand_b)

\* The registry as if add were registered with an Addition() of its own.
OPERATIONS_items_own ==
    { << <<"+">>, _addition >>,
      << <<"a", "d", "d">>, [cls |-> "Addition", id |-> 5] >>,
      << <<"a", "d", "d", "i", "t", "i", "o", "n">>, _addition >>,
      << <<"-">>, _subtraction >>,
      << <<"s", "u", "b">>, _subtraction >>,
      << <<"s", "u", "b", "t", "r", "a", "c", "t">>, _subtraction >>,
      << <<"s", "u", "b", "t", "r", "a", "c", "t", "i", "o", "n">>, _subtraction >>,
      << <<"*">>, _multiplication >>,
      << <<"m", "u", "l">>, _multiplication >>,
      << <<"m", "u", "l", "t", "i", "p", "l", "y">>, _multiplication >>,
      << <<"m", "u", "l", "t", "i", "p", "l", "i", "c", "a", "t", "i", "o", "n">>,
         _multiplication >>,
      << <<"/">>, _division >>,
      << <<"d", "i", "v">>, _division >>,
      << <<"d", "i", "v", "i", "d", "e">>, _division >>,
      << <<"d", "i", "v", "i", "s", "i", "o", "n">>, _division >> }

OPERATIONS_items ==
    { << <<"+">>, _addition >>,
      << <<"a", "d", "d">>, _addition >>,
      << <<"a", "d", "d", "i", "t", "i", "o", "n">>, _addition >>,
      << <<"-">>, _subtraction >>,
      << <<"s", "u", "b">>, _subtraction >>,
      << <<"s", "u", "b", "t", "r", "a", "c", "t">>, _subtraction >>,
      << <<"s", "u", "b", "t", "r", "a", "c", "t", "i", "o", "n">>, _subtraction >>,
      << <<"*">>, _multiplication >>,
      << <<"m", "u", "l">>, _multiplication >>,
      << <<"m", "u", "l", "t", "i", "p", "l", "y">>, _multiplication >>,
      << <<"m", "u", "l", "t", "i", "p", "l", "i", "c", "a", "t", "i", "o", "n">>,
         _multiplication >>,
      << <<"/">>, _division >>,
      << <<"d", "i", "v">>, _division >>,
      << <<"d", "i", "v", "i", "d", "e">>, _division >>,
      << <<"d", "i", "v", "i", "s", "i", "o", "n">>, _division >> }

OPERATIONS_keys == {it[1] : it \in OPERATIONS_items}

OPERATIONS ==
    [k \in OPERATIONS_keys |-> (CHOOSE it \in OPERATIONS_items : it[1] = k)[2]]

(***************************************************************************)
(* app/calculation/calculation.py                                          *)
(***************************************************************************)
Calculation(operand_a, operand_b, operation, result) ==
    [cls |-> "Calculation", operation |-> operation, operand_a |-> operand_a,
     operand_b |-> operand_b, _result |-> result]

\* The invocation self.operation.compute(self.operand_a, self.operand_b).
Invocation(self) ==
    [operation |-> self.operation, operand_a |-> self.operand_a,
     operand_b |-> self.operand_b]

\* The result property as if a failed compute stored nan.
Calculation_store_failed(self, r) ==
    IF r.exc # "none"
    THEN [calls |-> <<Invocation(self)>>, exc |-> r.exc, val |-> None, msg |-> r.msg,
          self |-> [self EXCEPT !._result = nan]]
    ELSE [calls |-> <<Invocation(self)>>, exc |-> "none",
          val |-> r.val, msg |-> NoMsg,
          self |-> [self EXCEPT !._result = r.val]]

\* self._result = self.operation.compute(...), r being what compute did.
Calculation_store(self, r) ==
    IF r.exc # "none"
    THEN [calls |-> <<Invocation(self)>>, exc |-> r.exc, val |-> None, msg |-> r.msg,
          self |-> self]
    ELSE [calls |-> <<Invocation(self)>>, exc |-> "none",
          val |-> r.val, msg |-> NoMsg,
          self |-> [self EXCEPT !._result = r.val]]

\* The result property as if it computed at every read.
Calculation_result_uncached(self) ==
    Bind(compute(self.operation, self.operand_a, self.operand_b),
         LAMBDA r : Calculation_store(self, r))

\* The result property: self is the object after the read, calls the
\* invocations of compute the read made.
Calculation_result(self) ==
    IF self._result = None
    THEN Bind(compute(self.operation, self.operand_a, self.operand_b),
              LAMBDA r : Calculation_store(self, r))
    ELSE [calls |-> <<>>, exc |-> "none", val |-> self._result, msg |-> NoMsg,
          self |-> self]

Calculation_format(self, r) ==
    IF r.exc # "none"
    THEN [calls |-> r.calls, exc |-> r.exc, val |-> <<>>, msg |-> r.msg, self |-> r.self]
    ELSE [calls |-> r.calls, exc |-> "none",
          val |-> float_str(self.operand_a) \o <<" ", symbol(self.operation), " ">>
                  \o float_str(self.operand_b) \o <<" ", "=", " ">>
                  \o float_str(r.val),
          msg |-> NoMsg, self |-> r.self]

\* __str__ as if it printed the stored result without reading the property.
Calculation_str_stored(self) ==
    [calls |-> <<>>, exc |-> "none",
     val |-> float_str(self.operand_a) \o <<" ", symbol(self.operation), " ">>
             \o float_str(self.operand_b) \o <<" ", "=", " ">>
             \o (IF self._result = None THEN <<"N", "o", "n", "e">>
                 ELSE float_str(self._result)),
     msg |-> NoMsg, self |-> self]

\* __str__: f"{operand_a} {symbol} {operand_b} = {result}"
Calculation_str(self) ==
    Bind(Calculation_result(self), LAMBDA r : Calculation_format(self, r))

\* isinstance(x, (int, float)); bool is a subclass of int.
IsNumber(x) == x.type \in {"int", "float", "bool"}

\* The attributes of an object by its class: the four operations, the two
\* classes of the tests that define symbol alone and compute alone, and
\* any other object.
attributes(operation) ==
    CASE operation.cls \in {"Addition", "Subtraction", "Multiplication", "Division"} ->
             {"compute", "symbol"}
      [] operation.cls = "SymbolOnly" -> {"symbol"}
      [] operation.cls = "ComputeOnly" -> {"compute"}
      [] OTHER -> {}

hasattr(operation, name) == name \in attributes(operation)

\* The factory as if it examined the operation before the operands.
create_calculation_operation_first(operand_a, operand_b, operation) ==
    IF ~hasattr(operation, "compute")
    THEN [calls |-> <<>>, exc |-> "TypeError", val |-> <<>>,
          msg |-> Msg("Operation must have a 'compute' method", <<>>, {})]
    ELSE IF ~hasattr(operation, "symbol")
    THEN [calls |-> <<>>, exc |-> "TypeError", val |-> <<>>,
          msg |-> Msg("Operation must have a 'symbol' attribute", <<>>, {})]
    ELSE IF ~IsNumber(operand_a)
    THEN [calls |-> <<>>, exc |-> "TypeError", val |-> <<>>,
          msg |-> Msg("First operand must be a number, got", type_name(operand_a), {})]
    ELSE IF ~IsNumber(operand_b)
    THEN [calls |-> <<>>, exc |-> "TypeError", val |-> <<>>,
          msg |-> Msg("Second operand must be a number, got", type_name(operand_b), {})]
    ELSE [calls |-> <<>>, exc |-> "none",
          val |-> <<Calculation(float_number(operand_a), float_number(operand_b),
                                operation, None)>>,
          msg |-> NoMsg]

\* The factory as if it computed the result when it constructs.
create_calculation_eager(operand_a, operand_b, operation) ==
    IF ~IsNumber(operand_a)
    THEN [calls |-> <<>>, exc |-> "TypeError", val |-> <<>>,
          msg |-> Msg("First operand must be a number, got", type_name(operand_a), {})]
    ELSE IF ~IsNumber(operand_b)
    THEN [calls |-> <<>>, exc |-> "TypeError", val |-> <<>>,
          msg |-> Msg("Second operand must be a number, got", type_name(operand_b), {})]
    ELSE IF ~hasattr(operation, "compute")
    THEN [calls |-> <<>>, exc |-> "TypeError", val |-> <<>>,
          msg |-> Msg("Operation must have a 'compute' method", <<>>, {})]
    ELSE IF ~hasattr(operation, "symbol")
    THEN [calls |-> <<>>, exc |-> "TypeError", val |-> <<>>,
          msg |-> Msg("Operation must have a 'symbol' attribute", <<>>, {})]
    ELSE Bind(Calculation_result(Calculation(float_number(operand_a),
                                             float_number(operand_b), operation, None)),
              LAMBDA r : [calls |-> r.calls, exc |-> r.exc,
                          val |-> IF r.exc # "none" THEN <<>> ELSE <<r.self>>,
                          msg |-> r.msg])

\* calls: the invocations of compute the factory made.
create_calculation(operand_a, operand_b, operation) ==
    IF ~IsNumber(operand_a)
    THEN [calls |-> <<>>, exc |-> "TypeError", val |-> <<>>,
          msg |-> Msg("First operand must be a number, got", type_name(operand_a), {})]
    ELSE IF ~IsNumber(operand_b)
    THEN [calls |-> <<>>, exc |-> "TypeError", val |-> <<>>,
          msg |-> Msg("Second operand must be a number, got", type_name(operand_b), {})]
    ELSE IF ~hasattr(operation, "compute")
    THEN [calls |-> <<>>, exc |-> "TypeError", val |-> <<>>,
          msg |-> Msg("Operation must have a 'compute' method", <<>>, {})]
    ELSE IF ~hasattr(operation, "symbol")
    THEN [calls |-> <<>>, exc |-> "TypeError", val |-> <<>>,
          msg |-> Msg("Operation must have a 'symbol' attribute", <<>>, {})]
    ELSE [calls |-> <<>>, exc |-> "none",
          val |-> <<Calculation(float_number(operand_a), float_number(operand_b),
                                operation, None)>>,
          msg |-> NoMsg]

(***************************************************************************)
(* app/calculator/calculator.py: CalculationHistory.  Its _history field   *)
(* is a reference to a list of the heap; an optional Calculation is <<>>   *)
(* (None) or <<c>>.                                                        *)
(***************************************************************************)
CalculationHistory_init(hp) ==
    [heap |-> Append(hp, <<>>), self |-> [_history |-> Len(hp) + 1]]

\* isinstance(x, Calculation)
IsCalculation(x) == "cls" \in DOMAIN x /\ x.cls = "Calculation"

\* add_calculation as if it took any value.
add_calculation_any(hp, self, calculation) ==
    [heap |-> [hp EXCEPT ![self._history] = Append(@, calculation)], exc |-> "none",
     msg |-> NoMsg]

\* add_calculation as if it inserted at the front of the list.
add_calculation_front(hp, self, calculation) ==
    IF ~IsCalculation(calculation)
    THEN [heap |-> hp, exc |-> "TypeError",
          msg |-> Msg("Must provide a Calculation instance", <<>>, {})]
    ELSE [heap |-> [hp EXCEPT ![self._history] = <<calculation>> \o @], exc |-> "none",
          msg |-> NoMsg]

\* add_calculation as if it skipped a calculation the list already holds.
add_calculation_unique(hp, self, calculation) ==
    IF ~IsCalculation(calculation)
    THEN [heap |-> hp, exc |-> "TypeError",
          msg |-> Msg("Must provide a Calculation instance", <<>>, {})]
    ELSE [heap |-> [hp EXCEPT ![self._history] =
                       IF \E i \in 1..Len(@) : @[i] = calculation
                       THEN @ ELSE Append(@, calculation)], exc |-> "none",
          msg |-> NoMsg]

\* add_calculation as if it put the calculation in the place of the last one.
add_calculation_replace(hp, self, calculation) ==
    IF ~IsCalculation(calculation)
    THEN [heap |-> hp, exc |-> "TypeError",
          msg |-> Msg("Must provide a Calculation instance", <<>>, {})]
    ELSE [heap |-> [hp EXCEPT ![self._history] =
                       IF @ = <<>> THEN <<calculation>>
                       ELSE SubSeq(@, 1, Len(@) - 1) \o <<calculation>>],
          exc |-> "none",
          msg |-> NoMsg]

add_calculation(hp, self, calculation) ==
    IF ~IsCalculation(calculation)
    THEN [heap |-> hp, exc |-> "TypeError",
          msg |-> Msg("Must provide a Calculation instance", <<>>, {})]
    ELSE [heap |-> [hp EXCEPT ![self._history] = Append(@, calculation)], exc |-> "none",
          msg |-> NoMsg]

\* get_history as if it returned self._history itself.
get_history_alias(hp, self) == [heap |-> hp, ret |-> self._history]

\* list.copy() makes a new list object holding the same elements.
get_history(hp, self) ==
    [heap |-> Append(hp, hp[self._history]), ret |-> Len(hp) + 1]

\* get_last_calculation as if it returned the first calculation.
get_last_calculation_first(hp, self) ==
    IF hp[self._history] # <<>>
    THEN <<hp[self._history][1]>>
    ELSE None

get_last_calculation(hp, self) ==
    IF hp[self._history] # <<>>
    THEN <<hp[self._history][Len(hp[self._history])]>>
    ELSE None

\* clear_history as if it removed the last calculation only.
clear_history_last(hp, self) ==
    [hp EXCEPT ![self._history] = SubSeq(@, 1, Len(@) - 1)]

clear_history(hp, self) == [hp EXCEPT ![self._history] = <<>>]

CalculationHistory_len(hp, self) == Len(hp[self._history])

CalculationHistory_bool(hp, self) == hp[self._history] # <<>>

(***************************************************************************)
(* app/calculator/calculator.py: InputValidator                            *)
(***************************************************************************)
not_a_valid_number(value) ==
    [exc |-> "ValueError", val |-> None, msg |-> Msg("is not a valid number", value, {})]

\* validate_number as if it returned whatever float() returns.
validate_float_special(value, r) ==
    IF r.exc # "none" THEN not_a_valid_number(value)
    ELSE [exc |-> "none", val |-> r.val, msg |-> NoMsg]

\* The body of validate_number's try, r being what float(value.strip()) did.
validate_float(value, r) ==
    IF r.exc # "none" THEN not_a_valid_number(value)
    ELSE IF FloatEq(r.val, inf) \/ FloatEq(r.val, neg_inf) \/ ~FloatEq(r.val, r.val)
    THEN not_a_valid_number(value)
    ELSE [exc |-> "none", val |-> r.val, msg |-> NoMsg]

validate_number(value) ==
    Bind(float(strip(value)), LAMBDA r : validate_float(value, r))

\* validate_operation as if every token were an operation.
validate_operation_any(operation) == TRUE

validate_operation(operation) == lower(strip(operation)) \in OPERATIONS_keys

valid_commands ==
    { <<"h", "e", "l", "p">>, <<"h", "i", "s", "t", "o", "r", "y">>,
      <<"e", "x", "i", "t">>, <<"q", "u", "i", "t">>, <<"c", "l", "e", "a", "r">> }

validate_command(command) == lower(strip(command)) \in valid_commands

(***************************************************************************)
(* Standard input: the lines input() may return.                           *)
(***************************************************************************)
\* blank and whitespace-only lines
BlankLines ==
    { <<>>,
      <<" ", " ">>,
      <<" ", "\t">> }

\* the five commands, alone, in other letter case and within whitespace
CommandLines ==
    { <<"h", "e", "l", "p">>,
      <<"h", "i", "s", "t", "o", "r", "y">>,
      <<"c", "l", "e", "a", "r">>,
      <<"e", "x", "i", "t">>,
      <<"q", "u", "i", "t">>,
      <<"E", "X", "I", "T">>,
      <<" ", "C", "l", "e", "a", "r", " ">>,
      <<" ", " ", "H", "e", "l", "p">>,
      <<"H", "I", "S", "T", "O", "R", "Y", " ">>,
      <<"Q", "u", "i", "t", "\t">> }

\* lines whose first token is a command and that hold more tokens
CommandFirstLines ==
    { <<"e", "x", "i", "t", " ", "n", "o", "w">>,
      <<"c", "l", "e", "a", "r", " ", "a", "l", "l">>,
      <<"h", "i", "s", "t", "o", "r", "y", " ", "5", " ", "+", " ", "3">>,
      <<"h", "e", "l", "p", " ", "m", "e">> }

\* well-formed calculations
CalculationLines ==
    { <<"5", " ", "+", " ", "3">>,
      <<"5", " ", "a", "d", "d", " ", "3">>,
      <<"5", " ", "A", "D", "D", " ", "3">>,
      <<" ", " ", "5", " ", "\t", "+", " ", " ", "3", " ">>,
      <<"5", " ", "-", " ", "3">>,
      <<"2", ".", "5", " ", "*", " ", "2">>,
      <<"5", " ", "/", " ", "2">>,
      <<"5", " ", "D", "i", "v", "i", "d", "e", " ", "2">> }

\* divisions by zero
ZeroDivisionLines ==
    { <<"5", " ", "/", " ", "0">>,
      <<"0", " ", "/", " ", "0">>,
      <<"-", "5", " ", "d", "i", "v", " ", "0">>,
      <<"5", " ", "D", "I", "V", "I", "S", "I", "O", "N", " ", "0", ".", "0">>,
      <<"5", " ", "d", "i", "v", "i", "d", "e", " ", "-", "0">> }

\* lines that are neither
MalformedLines ==
    { <<"5", " ", "+">>,
      <<"5">>,
      <<"5", " ", "+", " ", "3", " ", "+", " ", "1">>,
      <<"a", "b", "c", " ", "+", " ", "3">>,
      <<"5", " ", "+", " ", "a", "b", "c">>,
      <<"5", " ", "%", " ", "3">>,
      <<"5", " ", "%", "%", " ", "3">>,
      <<"2", ".", "5", " ", "M", "O", "D", " ", "2">>,
      <<"a", "b", "c", " ", "%", " ", "3">>,
      <<"a", "b", "c", " ", "+", " ", "x", "y", "z">>,
      <<"5", " ", "%", " ", "a", "b", "c">>,
      <<"a", "b", "c", " ", "%">>,
      <<"i", "n", "f", " ", "+", " ", "1">>,
      <<"5", " ", "+", " ", "-", "I", "n", "f", "i", "n", "i", "t", "y">>,
      <<"n", "a", "n", " ", "*", " ", "2">>,
      <<"a", "d", "d", " ", "5", " ", "3">>,
      <<"+", " ", "5", " ", "3">>,
      <<"5", " ", "p", "l", "u", "s", " ", "3">>,
      <<"e", "x", "i", "t", "s">>,
      <<"H", "e", "l", "p", "e", "r">>,
      <<"5", " ", "e", "x", "i", "t", " ", "3">> }

Lines ==
    BlankLines \cup CommandLines \cup CommandFirstLines \cup CalculationLines
    \cup ZeroDivisionLines \cup MalformedLines

(***************************************************************************)
(* app/calculator/calculator.py: Calculator.  A method takes the state m   *)
(* of the program (the heap, the Calculator's fields, what was printed,    *)
(* the exception in flight, the Calculation the factory made) and returns  *)
(* the state it leaves.                                                    *)
(***************************************************************************)
Output(tag, n, text, msg) == [n |-> n, text |-> text, msg |-> msg, tag |-> tag]

say(m, tag) == [m EXCEPT !.out = Append(@, Output(tag, 0, <<>>, NoMsg))]

sayText(m, tag, n, text) == [m EXCEPT !.out = Append(@, Output(tag, n, text, NoMsg))]

sayError(m, tag, msg) == [m EXCEPT !.out = Append(@, Output(tag, 0, <<>>, msg))]

Calculator_init ==
    LET h == CalculationHistory_init(<<>>)
    IN  [heap |-> h.heap, history |-> h.self, running |-> FALSE, out |-> <<>>,
         log |-> <<>>, exc |-> "none", made |-> <<>>]

_display_welcome(m) == say(m, "Professional Calculator Application")

_is_command(user_input) == validate_command(split(user_input)[1])

_display_help(m) == say(m, "CALCULATOR HELP")

\* One pass of _display_history's for loop: s is what formatting lst[i] did.
\* Formatting reads the result, which fills the cache of the Calculation
\* object, the one the history's own list holds at i as well.
displayEntry(m, i, s) ==
    IF s.exc # "none"
    THEN [m EXCEPT !.exc = s.exc]
    ELSE sayText([m EXCEPT !.heap[m.history._history][i] = s.self], "entry", i, s.val)

RECURSIVE displayEntries(_, _, _)
displayEntries(m, lst, i) ==
    IF m.exc # "none" THEN m
    ELSE IF i > Len(lst) THEN say(m, "==============================")
    ELSE Bind(Bind(Calculation_str(lst[i]), LAMBDA s : displayEntry(m, i, s)),
              LAMBDA d : displayEntries(d, lst, i + 1))

\* g is what get_history did; the copy is dropped when the method returns.
displayCopy(m, g) ==
    displayEntries(say(m, "CALCULATION HISTORY"), g.heap[g.ret], 1)

_display_history(m) ==
    IF ~CalculationHistory_bool(m.heap, m.history)
    THEN say(m, "No calculations in history.")
    ELSE Bind(get_history(m.heap, m.history), LAMBDA g : displayCopy(m, g))

_clear_history(m) ==
    say([m EXCEPT !.heap = clear_history(m.heap, m.history), !.log = <<>>],
        "Calculation history cleared.")

\* _handle_command as if exit and quit said goodbye and left running set.
_handle_command_stay(m, command) ==
    IF command \in {<<"e", "x", "i", "t">>, <<"q", "u", "i", "t">>}
    THEN say(m, "Goodbye!")
    ELSE IF command = <<"h", "e", "l", "p">> THEN _display_help(m)
    ELSE IF command = <<"h", "i", "s", "t", "o", "r", "y">> THEN _display_history(m)
    ELSE IF command = <<"c", "l", "e", "a", "r">> THEN _clear_history(m)
    ELSE m

_handle_command(m, command) ==
    IF command \in {<<"e", "x", "i", "t">>, <<"q", "u", "i", "t">>}
    THEN [say(m, "Goodbye!") EXCEPT !.running = FALSE]
    ELSE IF command = <<"h", "e", "l", "p">> THEN _display_help(m)
    ELSE IF command = <<"h", "i", "s", "t", "o", "r", "y">> THEN _display_history(m)
    ELSE IF command = <<"c", "l", "e", "a", "r">> THEN _clear_history(m)
    ELSE m

\* _parse_input as if it validated the operation before the operands.
parse_validated_operation_first(operation_str, operand_a, operand_b) ==
    IF ~validate_operation(operation_str)
    THEN [exc |-> "ValueError",
          val |-> <<>>,
          msg |-> Msg("Unsupported operation", operation_str, OPERATIONS_keys)]
    ELSE IF operand_a.exc # "none"
    THEN [exc |-> operand_a.exc, val |-> <<>>, msg |-> operand_a.msg]
    ELSE IF operand_b.exc # "none"
    THEN [exc |-> operand_b.exc, val |-> <<>>, msg |-> operand_b.msg]
    ELSE [exc |-> "none", val |-> <<operand_a.val, lower(operation_str), operand_b.val>>,
          msg |-> NoMsg]

\* _parse_input once both operands went through validate_number.
parse_validated(operation_str, operand_a, operand_b) ==
    IF operand_a.exc # "none"
    THEN [exc |-> operand_a.exc, val |-> <<>>, msg |-> operand_a.msg]
    ELSE IF operand_b.exc # "none"
    THEN [exc |-> operand_b.exc, val |-> <<>>, msg |-> operand_b.msg]
    ELSE IF ~validate_operation(operation_str)
    THEN [exc |-> "ValueError",
          val |-> <<>>,
          msg |-> Msg("Unsupported operation", operation_str, OPERATIONS_keys)]
    ELSE [exc |-> "none", val |-> <<operand_a.val, lower(operation_str), operand_b.val>>,
          msg |-> NoMsg]

\* _parse_input as if it accepted three parts or more.
parse_parts_lenient(parts) ==
    IF Len(parts) < 3
    THEN [exc |-> "ValueError",
          val |-> <<>>,
          msg |-> Msg("Please provide exactly three parts: number operation number",
                      <<>>, {})]
    ELSE Bind(validate_number(parts[1]), LAMBDA operand_a :
         Bind(validate_number(parts[3]), LAMBDA operand_b :
              parse_validated(parts[2], operand_a, operand_b)))

parse_parts(parts) ==
    IF Len(parts) # 3
    THEN [exc |-> "ValueError",
          val |-> <<>>,
          msg |-> Msg("Please provide exactly three parts: number operation number",
                      <<>>, {})]
    ELSE Bind(validate_number(parts[1]), LAMBDA operand_a :
         Bind(validate_number(parts[3]), LAMBDA operand_b :
              parse_validated(parts[2], operand_a, operand_b)))

_parse_input(user_input) == Bind(split(user_input), LAMBDA parts : parse_parts(parts))

\* _perform_calculation after the read of calculation.result, which did r.
perform_read(m, r) ==
    IF r.exc = "ZeroDivisionError"
    THEN [ret |-> None, m |-> sayError(m, "Math error", r.msg)]
    ELSE IF r.exc # "none"
    THEN [ret |-> None, m |-> sayError(m, "Calculation error", r.msg)]
    ELSE [ret |-> <<r.self>>, m |-> m]

\* _perform_calculation as if it returned the Calculation without reading
\* its result.
perform_created_unread(m, c) ==
    IF c.exc # "none"
    THEN [ret |-> None, m |-> sayError(m, "Calculation error", c.msg)]
    ELSE [ret |-> c.val, m |-> [m EXCEPT !.made = c.val]]

\* _perform_calculation after the factory call, which did c.
perform_created(m, c) ==
    IF c.exc # "none"
    THEN [ret |-> None, m |-> sayError(m, "Calculation error", c.msg)]
    ELSE Bind(Calculation_result(c.val[1]),
              LAMBDA r : perform_read([m EXCEPT !.made = c.val], r))

\* Returns the state and ret, the optional Calculation.
_perform_calculation(m, operand_a, operation_str, operand_b) ==
    IF operation_str \notin DOMAIN OPERATIONS
    THEN [ret |-> None,
          m |-> sayError(m, "Calculation error", Msg("KeyError", operation_str, {}))]
    ELSE Bind(create_calculation(PyFloat(operand_a), PyFloat(operand_b),
                                 OPERATIONS[operation_str]),
              LAMBDA c : perform_created(m, c))

\* print(f"Result: {calculation}"), s being what formatting it did.
handle_print(m, s) ==
    IF s.exc # "none" THEN sayError(m, "Error", s.msg)
    ELSE sayText(m, "Result", 0, s.val)

\* self.history.add_calculation(calculation), which did a, and the print.
handle_added(m, calculation, a) ==
    IF a.exc # "none" THEN sayError(m, "Error", a.msg)
    ELSE Bind(Calculation_str(calculation),
              LAMBDA s : handle_print([m EXCEPT !.heap = a.heap,
                                                !.log = Append(@, calculation)], s))

\* if calculation: ..., c being what _perform_calculation did.
handle_performed(c) ==
    IF c.ret = None THEN c.m
    ELSE Bind(add_calculation(c.m.heap, c.m.history, c.ret[1]),
              LAMBDA a : handle_added(c.m, c.ret[1], a))

\* The try of _handle_calculation_input, p being what _parse_input did.
handle_parsed(m, p) ==
    IF p.exc = "ValueError" THEN sayError(m, "Input error", p.msg)
    ELSE IF p.exc # "none" THEN sayError(m, "Error", p.msg)
    ELSE Bind(_perform_calculation(m, p.val[1], p.val[2], p.val[3]),
              LAMBDA c : handle_performed(c))

_handle_calculation_input(m, user_input) ==
    Bind(_parse_input(user_input), LAMBDA p : handle_parsed(m, p))

\* The except Exception clause of run: h is the state the handlers left.
run_handled(h) ==
    IF h.exc # "none"
    THEN [m |-> say([h EXCEPT !.exc = "none"], "Unexpected error"), brk |-> FALSE]
    ELSE [m |-> h, brk |-> FALSE]

\* The body of run's try as if the command were passed on as typed.
run_line_cased(m, user_input) ==
    IF user_input = <<>> THEN m
    ELSE IF _is_command(user_input) THEN _handle_command(m, user_input)
    ELSE _handle_calculation_input(m, user_input)

\* The body of run's try without the test for empty input: split()[0] of
\* the empty text raises IndexError.
run_line_unguarded(m, user_input) ==
    IF user_input = <<>> THEN [m EXCEPT !.exc = "IndexError"]
    ELSE IF _is_command(user_input) THEN _handle_command(m, lower(user_input))
    ELSE _handle_calculation_input(m, user_input)

\* The body of run's try once input() returned and the text was stripped.
run_line(m, user_input) ==
    IF user_input = <<>> THEN m
    ELSE IF _is_command(user_input) THEN _handle_command(m, lower(user_input))
    ELSE _handle_calculation_input(m, user_input)

\* run's loop as if any exception of input() ended it.
run_iteration_fatal(m, inp) ==
    IF inp.raised # "none"
    THEN [m |-> say(m, "Goodbye!"), brk |-> TRUE]
    ELSE Bind(Bind(strip(inp.text), LAMBDA user_input : run_line(m, user_input)),
              LAMBDA h : run_handled(h))

\* One pass through the body of run's while loop.  inp is what input() did:
\* it returned inp.text (raised "none") or raised inp.raised.  brk tells
\* that the pass left the loop through break.
run_iteration(m, inp) ==
    IF inp.raised \in {"KeyboardInterrupt", "EOFError"}
    THEN [m |-> say(m, "Goodbye!"), brk |-> TRUE]
    ELSE IF inp.raised # "none"
    THEN [m |-> say(m, "Unexpected error"), brk |-> FALSE]
    ELSE Bind(Bind(strip(inp.text), LAMBDA user_input : run_line(m, user_input)),
              LAMBDA h : run_handled(h))

(***************************************************************************)
(* The REPL session: main.py creates a Calculator and calls run().         *)
(***************************************************************************)
Init ==
    /\ heap = Calculator_init.heap
    /\ history = Calculator_init.history
    /\ running = Calculator_init.running
    /\ out = Calculator_init.out
    /\ log = Calculator_init.log
    /\ pc = "init"
    /\ remaining \in 0..MaxLines
    /\ line = <<>>
    /\ raised = "unread"
    /\ held = 0
    /\ call = ""
    /\ before = <<>>
    /\ args = <<>>
    /\ ret = <<>>
    /\ obj = <<>>
    /\ given = None
    /\ calls = <<>>

\* run() up to its while loop.
Start ==
    /\ pc = "init"
    /\ running' = TRUE
    /\ out' = _display_welcome([out |-> <<>>]).out
    /\ pc' = "loop"
    /\ UNCHANGED <<heap, history, remaining, line, raised, held, call, log, before>>
    /\ UNCHANGED <<args, ret, obj, given, calls>>

\* The state of the program as the methods take it.
Self ==
    [heap |-> heap, history |-> history, running |-> running, out |-> <<>>,
     log |-> log, exc |-> "none", made |-> <<>>]

\* The program moves to the state r.m; the loop is left by break or when the
\* while test fails.
Leave(r) ==
    /\ heap' = r.m.heap
    /\ history' = r.m.history
    /\ running' = r.m.running
    /\ out' = r.m.out
    /\ log' = r.m.log
    /\ obj' = r.m.made
    /\ pc' = IF r.brk \/ ~r.m.running THEN "done" ELSE "loop"

\* The while test holds and the body runs once, with input() doing inp.
Iterate(inp) ==
    /\ pc = "loop"
    /\ running
    /\ \E r \in {run_iteration(Self, inp)} : Leave(r)
    /\ line' = inp.text
    /\ raised' = inp.raised
    /\ before' = heap[history._history]
    /\ UNCHANGED <<held, call, args, ret, given, calls>>

\* input() takes one line off standard input.
Consume ==
    /\ remaining > 0
    /\ remaining' = remaining - 1

Returned(l) == [raised |-> "none", text |-> l]

Raised(e) == [raised |-> e, text |-> <<>>]

\* The lines by the branch of the loop body that takes them.
BlankInputs == {x \in Lines : strip(x) = <<>>}

CommandInputs == {x \in Lines : strip(x) # <<>> /\ _is_command(strip(x))}

CalculationInputs == {x \in Lines : strip(x) # <<>> /\ ~_is_command(strip(x))}

\* if not user_input: continue
Blank == \E l \in BlankInputs : Consume /\ Iterate(Returned(l))

\* if self._is_command(user_input): ...; continue
Command == \E l \in CommandInputs : Consume /\ Iterate(Returned(l))

\* self._handle_calculation_input(user_input)
CalculationInput == \E l \in CalculationInputs : Consume /\ Iterate(Returned(l))

\* input() fails with an exception other than the two the loop ends on.
InputFailure ==
    /\ Consume
    /\ Iterate(Raised("Exception"))

EndOfInput ==
    /\ remaining = 0
    /\ UNCHANGED remaining
    /\ Iterate(Raised("EOFError"))

Interrupt ==
    /\ UNCHANGED remaining
    /\ Iterate(Raised("KeyboardInterrupt"))

Next ==
    \/ Start
    \/ Interrupt
    \/ EndOfInput
    \/ InputFailure
    \/ Blank
    \/ Command
    \/ CalculationInput

Spec == Init /\ [][Next]_vars

\* Each call of input() returns or raises, and the stream is finite.
LiveSpec == Spec /\ WF_vars(Next)

(***************************************************************************)
(* A caller of CalculationHistory: it creates a history, adds              *)
(* calculations, clears it, asks for the list and does to the list it got  *)
(* what a Python caller can do to a list.                                  *)
(***************************************************************************)
\* The number of calculations the caller adds to a history, at most.
MaxHistory == 2

\* The calculations the caller adds: the factory's, results not yet read.
SampleCalculations ==
    { create_calculation(PyFloat(<<5, 1>>), PyFloat(<<3, 1>>), _addition).val[1],
      create_calculation(PyFloat(<<5, 1>>), PyFloat(<<0, 1>>), _division).val[1],
      Calculation_result(
          create_calculation(PyFloat(<<5, 1>>), PyFloat(<<2, 1>>), _division).val[1]).self }

HistoryInit ==
    /\ heap = CalculationHistory_init(<<>>).heap
    /\ history = CalculationHistory_init(<<>>).self
    /\ held = 0
    /\ call = "__init__"
    /\ log = <<>>
    /\ before = <<>>
    /\ pc = "api"
    /\ running = FALSE
    /\ remaining = 0
    /\ line = <<>>
    /\ raised = "unread"
    /\ out = <<>>
    /\ args = <<>>
    /\ ret = <<>>
    /\ obj = <<>>
    /\ given = None
    /\ calls = <<>>

Called(name) ==
    /\ pc = "api"
    /\ call' = name
    /\ before' = heap[history._history]
    /\ UNCHANGED <<history, pc, running, remaining, line, raised, out>>
    /\ UNCHANGED <<obj, given, calls>>

CallAdd ==
    \E c \in SampleCalculations :
        /\ Len(heap[history._history]) < MaxHistory
        /\ \E a \in {add_calculation(heap, history, c)} :
               /\ heap' = a.heap
               /\ log' = IF a.exc = "none" THEN Append(log, c) ELSE log
               /\ ret' = [exc |-> a.exc, msg |-> a.msg]
        /\ args' = <<c>>
        /\ UNCHANGED held
        /\ Called("add_calculation")

\* What a caller may pass that is no Calculation: the str of the test, None,
\* a float, a list and an operation.
SampleValues ==
    { PyStr(<<"n", "o", "t", "_", "a", "_", "c", "a", "l", "c", "u", "l", "a", "t", "i",
              "o", "n">>),
      PyNone, PyFloat(<<8, 1>>), PyList }

\* add_calculation(x) for an x of another type, an operation included
CallAddValue ==
    \E x \in SampleValues \cup {_addition} :
        /\ \E a \in {add_calculation(heap, history, x)} :
               /\ heap' = a.heap
               /\ log' = IF a.exc = "none" THEN Append(log, x) ELSE log
               /\ ret' = [exc |-> a.exc, msg |-> a.msg]
        /\ args' = <<x>>
        /\ UNCHANGED held
        /\ Called("add_calculation")

CallClear ==
    /\ heap' = clear_history(heap, history)
    /\ log' = <<>>
    /\ UNCHANGED held
    /\ args' = <<>> /\ ret' = <<>>
    /\ Called("clear_history")

CallLast ==
    /\ ret' = [exc |-> "none", val |-> get_last_calculation(heap, history)]
    /\ args' = <<>>
    /\ UNCHANGED <<heap, held, log>>
    /\ Called("get_last_calculation")

\* The caller lets go of the list it held and keeps the one returned.
CallGet ==
    /\ \E g \in {get_history(SubSeq(heap, 1, history._history), history)} :
           /\ heap' = g.heap
           /\ held' = g.ret
    /\ UNCHANGED log
    /\ args' = <<>> /\ ret' = <<>>
    /\ Called("get_history")

\* del lst[-1]
CallerRemoves ==
    /\ held # 0
    /\ heap[held] # <<>>
    /\ heap' = [heap EXCEPT ![held] = SubSeq(@, 1, Len(@) - 1)]
    /\ UNCHANGED <<held, log>>
    /\ args' = <<>> /\ ret' = <<>>
    /\ Called("caller: remove")

\* lst.append(c)
CallerAdds ==
    \E c \in SampleCalculations :
        /\ held # 0
        /\ Len(heap[held]) <= MaxHistory
        /\ heap' = [heap EXCEPT ![held] = Append(@, c)]
        /\ UNCHANGED <<held, log>>
        /\ args' = <<>> /\ ret' = <<>>
        /\ Called("caller: add")

\* lst.reverse()
CallerReorders ==
    /\ held # 0
    /\ heap' = [heap EXCEPT ![held] = [i \in 1..Len(@) |-> @[Len(@) + 1 - i]]]
    /\ UNCHANGED <<held, log>>
    /\ args' = <<>> /\ ret' = <<>>
    /\ Called("caller: reorder")

\* lst.clear()
CallerClears ==
    /\ held # 0
    /\ heap' = [heap EXCEPT ![held] = <<>>]
    /\ UNCHANGED <<held, log>>
    /\ args' = <<>> /\ ret' = <<>>
    /\ Called("caller: clear")

HistoryNext ==
    \/ CallAdd
    \/ CallAddValue
    \/ CallClear
    \/ CallLast
    \/ CallGet
    \/ CallerRemoves
    \/ CallerAdds
    \/ CallerReorders
    \/ CallerClears

HistorySpec == HistoryInit /\ [][HistoryNext]_vars

(***************************************************************************)
(* The state of a caller that uses the library without a Calculator: no    *)
(* history, no loop, no input.                                             *)
(***************************************************************************)
NoSession ==
    /\ heap = <<>>
    /\ history = [_history |-> 0]
    /\ held = 0
    /\ log = <<>>
    /\ before = <<>>
    /\ pc = "api"
    /\ running = FALSE
    /\ remaining = 0
    /\ line = <<>>
    /\ raised = "unread"
    /\ out = <<>>

SessionUnchanged ==
    UNCHANGED <<heap, history, held, log, before, pc, running, remaining, line, raised, out>>

(***************************************************************************)
(* A caller of the functions that keep no state: the compute of the four   *)
(* operations, the registry as the calculator consults it,                 *)
(* InputValidator.validate_number and Calculator._parse_input.             *)
(***************************************************************************)
\* The floats the caller computes with: sums, products and quotients of
\* these are floats exactly.
SampleFloats == { <<4, 1>>, <<2, 1>>, <<0, 1>>, <<-4, 1>>, <<1, 2>>, <<-1, 2>> }

upperChar(c) ==
    IF \E i \in 1..Len(ascii_lowercase) : ascii_lowercase[i] = c
    THEN ascii_uppercase[CHOOSE i \in 1..Len(ascii_lowercase) : ascii_lowercase[i] = c]
    ELSE c

\* str.upper()
upper(s) == [i \in 1..Len(s) |-> upperChar(s[i])]

\* str.capitalize(), of a lower-case word
capitalize(s) == [i \in 1..Len(s) |-> IF i = 1 THEN upperChar(s[i]) ELSE s[i]]

\* The operator tokens the caller looks up: every word of the registry in
\* lower case, in upper case and capitalized, and words it does not hold.
OperatorTexts ==
    OPERATIONS_keys
    \cup {upper(k) : k \in OPERATIONS_keys}
    \cup {capitalize(k) : k \in OPERATIONS_keys}
    \cup { <<"%">>, <<"%", "%">>, <<"p", "l", "u", "s">>, <<"a", "d", "d", "s">>,
           <<"x">>, <<"+", "+">>, <<"m", "o", "d">> }

\* The texts the caller has validated as numbers.
NumberTexts ==
    { <<"5">>,
      <<"3", ".", "1", "4">>,
      <<"-", "5">>,
      <<"+", "3">>,
      <<"0">>,
      <<"-", "0">>,
      <<"0", "0", "7">>,
      <<".", "5">>,
      <<"5", ".">>,
      <<" ", " ", "5", ".", "5", " ", " ">>,
      <<"\t", "2", ".", "5", "\t">>,
      <<"1", "e", "6">>,
      <<"1", ".", "5", "E", "-", "3">>,
      <<"1", "e", "9", "9", "9">>,
      <<"-", "1", "e", "9", "9", "9">>,
      <<"1", "e", "-", "9", "9", "9">>,
      <<>>,
      <<" ", " ">>,
      <<"a", "b", "c">>,
      <<"5", ".", "5", ".", "5">>,
      <<"5", " ", "+", " ", "3">>,
      <<"5", " ", "3">>,
      <<".">>,
      <<"-">>,
      <<"-", "-", "5">>,
      <<"5", "-">>,
      <<"1", ",", "5">>,
      <<"5", "e">>,
      <<"e", "5">>,
      <<"1", "e", "+">>,
      <<"i", "n", "f">>,
      <<"-", "i", "n", "f">>,
      <<" ", "I", "N", "F", " ">>,
      <<"i", "n", "f", "i", "n", "i", "t", "y">>,
      <<"+", "I", "n", "f", "i", "n", "i", "t", "y">>,
      <<"i", "n", "f", "i", "n", "i", "t">>,
      <<"n", "a", "n">>,
      <<"N", "a", "N">>,
      <<"-", "n", "a", "n">>,
      <<" ", "n", "a", "n">> }

FunctionInit ==
    /\ NoSession
    /\ call = ""
    /\ args = <<>>
    /\ ret = <<>>
    /\ obj = <<>>
    /\ given = None
    /\ calls = <<>>

\* The caller invoked name with the arguments a and it did r.
Invoked(name, a, r) ==
    /\ pc = "api"
    /\ call' = name
    /\ args' = a
    /\ ret' = r
    /\ SessionUnchanged

\* operation.compute(operand_a, operand_b)
CallCompute ==
    \E operation \in {_addition, _subtraction, _multiplication, _division} :
        \E operand_a \in SampleFloats, operand_b \in SampleFloats :
            /\ Invoked("compute", <<operation, operand_a, operand_b>>,
                       compute(operation, operand_a, operand_b))
            /\ UNCHANGED <<obj, given, calls>>

\* The registry as _parse_input and _perform_calculation consult it: the
\* token is validated, lower-cased and used as the key.
lookup(operation_str) ==
    IF ~validate_operation(operation_str)
    THEN [exc |-> "ValueError",
          val |-> <<>>,
          msg |-> Msg("Unsupported operation", operation_str, OPERATIONS_keys)]
    ELSE IF lower(operation_str) \notin DOMAIN OPERATIONS
    THEN [exc |-> "KeyError", val |-> <<>>,
          msg |-> Msg("KeyError", lower(operation_str), {})]
    ELSE [exc |-> "none", val |-> <<OPERATIONS[lower(operation_str)]>>, msg |-> NoMsg]

CallLookup ==
    \E operation_str \in OperatorTexts :
        /\ Invoked("OPERATIONS", <<operation_str>>, lookup(operation_str))
        /\ UNCHANGED <<obj, given, calls>>

\* InputValidator.validate_number(value)
CallValidateNumber ==
    \E value \in NumberTexts :
        /\ Invoked("validate_number", <<value>>, validate_number(value))
        /\ UNCHANGED <<obj, given, calls>>

\* Calculator._parse_input(user_input), of a line that is no command
CallParseInput ==
    \E user_input \in CalculationInputs :
        /\ Invoked("_parse_input", <<user_input>>, _parse_input(user_input))
        /\ UNCHANGED <<obj, given, calls>>

FunctionNext ==
    \/ CallCompute
    \/ CallLookup
    \/ CallValidateNumber
    \/ CallParseInput

FunctionSpec == FunctionInit /\ [][FunctionNext]_vars

(***************************************************************************)
(* A caller of CalculationFactory and Calculation: it has the factory make *)
(* a Calculation (or constructs one itself), reads its result and formats  *)
(* it.                                                                     *)
(***************************************************************************)
\* The compute invocations one Calculation may see, at most.
MaxComputes == 2

\* What the caller passes as operands: floats, ints and objects of the
\* types that are no numbers.
SampleOperands ==
    { PyFloat(<<4, 1>>), PyFloat(<<0, 1>>), PyFloat(<<1, 2>>), PyInt(2), PyInt(0),
      PyStr(<<"i", "n", "v", "a", "l", "i", "d">>), PyNone, PyList, PyDict,
      PyComplex(<<1, 1>>, <<2, 1>>) }

\* What the caller passes as operation: the shared instances, an instance
\* of each of the two classes that lack an attribute, and a plain object.
SampleOperations ==
    { _addition, _subtraction, _multiplication, _division,
      [cls |-> "SymbolOnly", id |-> 5], [cls |-> "ComputeOnly", id |-> 6],
      [cls |-> "object", id |-> 7] }

\* The results the caller hands to the constructor of Calculation.
SampleResults == { None, <<8, 1>>, <<99, 1>> }

\* CalculationFactory.create_calculation(operand_a, operand_b, operation)
CallCreate ==
    \E operand_a \in SampleOperands, operand_b \in SampleOperands :
        \E operation \in SampleOperations :
            \E c \in {create_calculation(operand_a, operand_b, operation)} :
                /\ Invoked("create_calculation", <<operand_a, operand_b, operation>>, c)
                /\ obj' = c.val
                /\ given' = None
                /\ calls' = c.calls

\* Calculation(operand_a, operand_b, operation, result)
CallConstruct ==
    \E operand_a \in {<<4, 1>>, <<0, 1>>, <<1, 2>>}, operand_b \in {<<4, 1>>, <<0, 1>>} :
        \E operation \in {_addition, _subtraction, _multiplication, _division} :
            \E result \in SampleResults :
                /\ Invoked("Calculation", <<operand_a, operand_b, operation, result>>,
                           [calls |-> <<>>, exc |-> "none",
                            val |-> <<Calculation(operand_a, operand_b, operation,
                                                  result)>>,
                            msg |-> NoMsg])
                /\ obj' = <<Calculation(operand_a, operand_b, operation, result)>>
                /\ given' = result
                /\ calls' = <<>>

\* The caller read obj.result or formatted obj, which did r.
ReadObject(name, r) ==
    /\ Invoked(name, obj, r)
    /\ obj' = <<r.self>>
    /\ calls' = calls \o r.calls
    /\ UNCHANGED given

\* calculation.result
CallResult ==
    /\ obj # <<>>
    /\ Len(calls) < MaxComputes
    /\ \E r \in {Calculation_result(obj[1])} : ReadObject("result", r)

\* str(calculation)
CallStr ==
    /\ obj # <<>>
    /\ Len(calls) < MaxComputes
    /\ \E r \in {Calculation_str(obj[1])} : ReadObject("__str__", r)

CalculationNext ==
    \/ CallCreate
    \/ CallConstruct
    \/ CallResult
    \/ CallStr

CalculationSpec == FunctionInit /\ [][CalculationNext]_vars

(***************************************************************************)
(* Properties of the REPL session                                          *)
(***************************************************************************)
\* The content of the controller's history.
HistoryList == heap[history._history]

\* The last step read the text line from standard input and processed it.
Read == pc \in {"loop", "done"} /\ raised = "none"

Tags(o) == [i \in 1..Len(o) |-> o[i].tag]

ExitWords == {<<"e", "x", "i", "t">>, <<"q", "u", "i", "t">>}

\* A token that reads as a finite number.
NumberToken(t) == float(t).exc = "none" /\ IsFinite(float(t).val)

\* A token that is an alias of the registry, in any letter case.
AliasToken(t) == lower(t) \in DOMAIN OPERATIONS

FirstIsCommand(l) == strip(l) # <<>> /\ lower(split(l)[1]) \in valid_commands

\* <number> <alias> <number>
WellFormed(l) ==
    /\ Len(split(l)) = 3
    /\ NumberToken(split(l)[1])
    /\ AliasToken(split(l)[2])
    /\ NumberToken(split(l)[3])

DividesByZero(l) ==
    /\ OPERATIONS[lower(split(l)[2])].cls = "Division"
    /\ float(split(l)[3]).val[1] = 0

\* r is the arithmetic result of the operation on a and b (as fractions).
Applied(operation, a, b, r) ==
    /\ r[2] > 0
    /\ operation.cls = "Addition" =>
           r[1] * a[2] * b[2] = r[2] * (a[1] * b[2] + b[1] * a[2])
    /\ operation.cls = "Subtraction" =>
           r[1] * a[2] * b[2] = r[2] * (a[1] * b[2] - b[1] * a[2])
    /\ operation.cls = "Multiplication" =>
           r[1] * a[2] * b[2] = r[2] * a[1] * b[1]
    /\ operation.cls = "Division" =>
           r[1] * a[2] * b[1] = r[2] * a[1] * b[2]

\* c is the Calculation the well-formed line l asks for, computed.
Requested(l, c) ==
    /\ c.cls = "Calculation"
    /\ c.operand_a = float(split(l)[1]).val
    /\ c.operand_b = float(split(l)[3]).val
    /\ c.operation = OPERATIONS[lower(split(l)[2])]
    /\ c._result # None
    /\ Applied(c.operation, c.operand_a, c.operand_b, c._result)

\* C1: a well-formed line that does not divide by zero appends exactly one
\* Calculation at the end of the history: its operands are the two numbers,
\* its operation the one the alias resolves to, its result that operation
\* applied to the operands; the earlier entries are unchanged and the loop
\* keeps running.
C1_SuccessAppendsOne ==
    Read /\ WellFormed(line) /\ ~DividesByZero(line) =>
        /\ Len(HistoryList) = Len(before) + 1
        /\ SubSeq(HistoryList, 1, Len(before)) = before
        /\ Requested(line, HistoryList[Len(HistoryList)])
        /\ running
        /\ pc = "loop"

C1_Witness ==
    /\ Read
    /\ WellFormed(line)
    /\ ~DividesByZero(line)
    /\ Len(before) = 2
    /\ before[1] # before[2]
    /\ Len(HistoryList) = 3
    /\ HistoryList[3].operation.cls = "Division"

\* C2: a line a <division alias> 0, for any finite a, leaves the history as
\* it was, reports a math error and no input error, and leaves the
\* calculator running.
C2_DivisionByZeroDiscarded ==
    Read /\ WellFormed(line) /\ DividesByZero(line) =>
        /\ HistoryList = before
        /\ Tags(out) = <<"Math error">>
        /\ running
        /\ pc = "loop"

C2_Witness ==
    /\ Read
    /\ WellFormed(line)
    /\ DividesByZero(line)
    /\ float(split(line)[1]).val[1] = 0
    /\ before # <<>>
    /\ HistoryList = before
    /\ out[1].tag = "Math error"
    /\ remaining > 0

\* The last step ended the loop rightfully: it processed exit or quit, or
\* input() signalled an interrupt or the end of the input.
StopStep ==
    \/ raised \in {"EOFError", "KeyboardInterrupt"}
    \/ Read /\ lower(strip(line)) \in ExitWords

\* C3: the loop stops only in a step that processes exit or quit or gets an
\* interrupt or end-of-input signal; after any other step (any other line,
\* an unexpected error) the calculator is running and in its loop.
C3_StopsOnlyOnExitOrSignal ==
    pc # "init" /\ raised # "unread" /\ ~StopStep => running /\ pc = "loop"

C3_Witness ==
    /\ raised = "Exception"
    /\ pc = "loop"
    /\ running
    /\ HistoryList # <<>>
    /\ remaining > 0

\* A calculation request (a line that is not blank and whose first token is
\* no command) with a format error.
FormatError(l) ==
    /\ strip(l) # <<>>
    /\ ~FirstIsCommand(l)
    /\ \/ Len(split(l)) # 3
       \/ ~NumberToken(split(l)[1])
       \/ ~NumberToken(split(l)[3])
       \/ ~AliasToken(split(l)[2])

\* C4: a token count other than three, an operand that is no valid number
\* or an operator that is no alias is reported as an input error, leaves
\* the history unchanged and the calculator running.
C4_FormatErrorKeepsHistory ==
    Read /\ FormatError(line) =>
        /\ HistoryList = before
        /\ Tags(out) = <<"Input error">>
        /\ running
        /\ pc = "loop"

C4_Witness ==
    /\ Read
    /\ FormatError(line)
    /\ Len(split(line)) > 3
    /\ before # <<>>
    /\ HistoryList = before
    /\ out[1].tag = "Input error"

\* C5: the loop ends in the very step that processes exit or quit or gets
\* the interrupt or end-of-input signal; after it no line is read and the
\* history keeps its content; and on a finite input stream run() returns.
C5_TerminatesAtExitOrSignal ==
    /\ [](pc # "init" /\ StopStep => pc = "done")
    /\ [][pc = "done" =>
            remaining' = remaining /\ line' = line /\ heap' = heap /\ pc' = "done"]_vars
    /\ <>(pc = "done")

C5_Witness ==
    /\ pc = "done"
    /\ Read
    /\ lower(strip(line)) \in ExitWords
    /\ remaining > 0
    /\ HistoryList # <<>>

\* C6: a line whose first token is a command dispatches that command
\* whatever tokens follow: exit and quit stop the loop, clear empties the
\* history, help prints the help and history the history.
C6_FirstTokenDispatches ==
    Read /\ FirstIsCommand(line) =>
        /\ lower(split(line)[1]) \in ExitWords => ~running /\ pc = "done"
        /\ lower(split(line)[1]) = <<"c", "l", "e", "a", "r">> => HistoryList = <<>>
        /\ lower(split(line)[1]) = <<"h", "e", "l", "p">> =>
               Tags(out) = <<"CALCULATOR HELP">>
        /\ lower(split(line)[1]) = <<"h", "i", "s", "t", "o", "r", "y">> => out # <<>>

\* C7: running is False before run() starts, True while the loop processes
\* lines, and False again once the loop has ended, by a command or a signal.
C7_RunningFollowsLoop ==
    /\ pc = "init" => ~running
    /\ pc = "loop" => running
    /\ pc = "done" => ~running

\* What the history command prints for the list lst.
Listing(o, lst) ==
    IF lst = <<>> THEN Tags(o) = <<"No calculations in history.">>
    ELSE /\ Len(o) = Len(lst) + 2
         /\ o[1].tag = "CALCULATION HISTORY"
         /\ \A i \in 1..Len(lst) :
                /\ o[i + 1].tag = "entry"
                /\ o[i + 1].n = i
                /\ o[i + 1].text = Calculation_str(lst[i]).val

\* C8: after clear the history is empty whatever it held (length 0, no last
\* calculation) and the calculator keeps running; a history command lists
\* the calculations entered since the last clear, numbered from one, and
\* reports that there are none when there are none.
C8_ClearEmptiesHistory ==
    /\ Read /\ lower(strip(line)) = <<"c", "l", "e", "a", "r">> =>
           /\ HistoryList = <<>>
           /\ CalculationHistory_len(heap, history) = 0
           /\ get_last_calculation(heap, history) = None
           /\ Tags(out) = <<"Calculation history cleared.">>
           /\ running
           /\ pc = "loop"
    /\ Read /\ lower(strip(line)) = <<"h", "i", "s", "t", "o", "r", "y">> =>
           Listing(out, log)

C8_Witness ==
    /\ Read
    /\ lower(strip(line)) = <<"c", "l", "e", "a", "r">>
    /\ Len(before) = 2
    /\ HistoryList = <<>>
    /\ running
    /\ pc = "loop"

\* C9: after N successful calculations since the history was created (or
\* cleared), the list has length N, the count is N, the history is empty
\* exactly when N = 0, and the i-th element is the i-th calculation added;
\* a calculation entered twice is held twice.
C9_ListIsAppendOrder ==
    pc \in {"init", "loop", "done"} =>
        /\ get_history(heap, history).heap[get_history(heap, history).ret] = log
        /\ Len(get_history(heap, history).heap[get_history(heap, history).ret]) = Len(log)
        /\ CalculationHistory_len(heap, history) = Len(log)
        /\ ~CalculationHistory_bool(heap, history) <=> Len(log) = 0

C9_Witness ==
    /\ pc = "loop"
    /\ Len(log) = 3
    /\ log[1] = log[3]
    /\ log[1] # log[2]
    /\ Len(HistoryList) = 3

\* C10: get_history returns an independent copy: whatever the caller does to
\* a list it got (removing, adding, reordering, clearing), the history's own
\* list is as before and a later get_history returns the same entries in
\* the same order.
C10_ListIsIndependentCopy ==
    /\ held # history._history
    /\ call \in {"caller: remove", "caller: add", "caller: reorder", "caller: clear"} =>
           /\ heap[history._history] = before
           /\ get_history(heap, history).heap[get_history(heap, history).ret] = before
           /\ heap[history._history] = log

C10_Witness ==
    /\ call = "caller: clear"
    /\ held # 0
    /\ heap[held] = <<>>
    /\ Len(heap[history._history]) = 2
    /\ before = heap[history._history]

(***************************************************************************)
(* Properties of the registry, the operations and the validator            *)
(***************************************************************************)
Symbols == {"+", "-", "*", "/"}

\* The aliases of an operation, by its symbol: the symbol and the words.
AliasesOf(sym) ==
    CASE sym = "+" ->
             { <<"+">>, <<"a", "d", "d">>, <<"a", "d", "d", "i", "t", "i", "o", "n">> }
      [] sym = "-" ->
             { <<"-">>, <<"s", "u", "b">>, <<"s", "u", "b", "t", "r", "a", "c", "t">>,
               <<"s", "u", "b", "t", "r", "a", "c", "t", "i", "o", "n">> }
      [] sym = "*" ->
             { <<"*">>, <<"m", "u", "l">>, <<"m", "u", "l", "t", "i", "p", "l", "y">>,
               <<"m", "u", "l", "t", "i", "p", "l", "i", "c", "a", "t", "i", "o", "n">> }
      [] sym = "/" ->
             { <<"/">>, <<"d", "i", "v">>, <<"d", "i", "v", "i", "d", "e">>,
               <<"d", "i", "v", "i", "s", "i", "o", "n">> }

\* The shared instance of the operation with the symbol sym.
SharedInstance(sym) ==
    CASE sym = "+" -> _addition
      [] sym = "-" -> _subtraction
      [] sym = "*" -> _multiplication
      [] sym = "/" -> _division

\* C11: every alias of the registry resolves to one of the four shared
\* instances; the aliases of one operation, symbol and words in any letter
\* case, resolve to the same instance, and what is computed through one
\* alias is what is computed through any other alias of the operation.
C11_AliasesShareInstance ==
    call = "OPERATIONS" =>
        /\ \A k \in DOMAIN OPERATIONS :
               OPERATIONS[k] \in {_addition, _subtraction, _multiplication, _division}
        /\ \A sym \in Symbols :
               lower(args[1]) \in AliasesOf(sym) =>
                   /\ ret.exc = "none"
                   /\ ret.val[1] = SharedInstance(sym)
                   /\ \A other \in AliasesOf(sym) :
                          /\ lookup(other).val = ret.val
                          /\ lookup(upper(other)).val = ret.val
                          /\ \A a \in SampleFloats, b \in SampleFloats :
                                 compute(lookup(other).val[1], a, b)
                                     = compute(ret.val[1], a, b)

C11_Witness ==
    /\ call = "OPERATIONS"
    /\ args[1] = <<"D", "I", "V", "I", "S", "I", "O", "N">>
    /\ ret.exc = "none"
    /\ ret.val[1] = _division

(***************************************************************************)
(* Properties of Calculation and CalculationFactory                        *)
(***************************************************************************)
\* The operands of the Calculation c divide by zero.
ZeroDivisor(c) == c.operation.cls = "Division" /\ c.operand_b[1] = 0

\* The last call read the result of the Calculation, as such or to format it.
ReadResult == call \in {"result", "__str__"}

\* C12, for a Calculation constructed without a result, as the factory
\* constructs it, whose operands do not divide by zero: the first read of
\* result invokes compute once and stores the value; a later read returns
\* the stored value and invokes nothing, and the Calculation stays as it is.
C12_ResultComputedOnce ==
    obj # <<>> /\ given = None /\ ~ZeroDivisor(obj[1]) =>
        /\ obj[1]._result = None => calls = <<>> /\ ~ReadResult
        /\ obj[1]._result # None =>
               /\ calls = <<Invocation(obj[1])>>
               /\ Applied(obj[1].operation, obj[1].operand_a, obj[1].operand_b,
                          obj[1]._result)
        /\ ReadResult =>
               /\ ret.exc = "none"
               /\ obj[1]._result # None
               /\ call = "result" => ret.val = obj[1]._result
               /\ args[1]._result = None =>
                      /\ ret.calls = <<Invocation(args[1])>>
                      /\ obj[1] = [args[1] EXCEPT !._result = obj[1]._result]
               /\ args[1]._result # None =>
                      /\ ret.calls = <<>>
                      /\ obj[1] = args[1]

C12_Witness ==
    /\ call = "result"
    /\ given = None
    /\ obj # <<>>
    /\ obj[1].operation = _division
    /\ args[1]._result = <<1, 8>>
    /\ ret.val = <<1, 8>>
    /\ ret.calls = <<>>
    /\ Len(calls) = 1

\* C12 as stated, for every Calculation whose operands do not divide by
\* zero: once its result was read, compute was invoked exactly once and the
\* result is what compute gave.
C12_EveryFirstReadComputes ==
    obj # <<>> /\ ~ZeroDivisor(obj[1]) /\ ReadResult =>
        /\ calls = <<Invocation(obj[1])>>
        /\ Applied(obj[1].operation, obj[1].operand_a, obj[1].operand_b, obj[1]._result)

\* C13: Division.compute(a, b) raises ZeroDivisionError, and returns nothing,
\* for every a (positive, negative, zero) when b is zero; when b is not zero
\* it returns the quotient a / b and raises nothing. The compute of Addition,
\* Subtraction and Multiplication raises nothing and returns the sum, the
\* difference, the product.
C13_DivisionSignalsZeroDivisor ==
    call = "compute" =>
        /\ args[1] = _division /\ args[3][1] = 0 =>
               /\ ret.exc = "ZeroDivisionError"
               /\ ret.val = None
               /\ ret.msg.text = "Cannot divide by zero"
        /\ args[1] = _division /\ args[3][1] # 0 =>
               /\ ret.exc = "none"
               /\ ret.val # None
               /\ Applied(_division, args[2], args[3], ret.val)
        /\ args[1] # _division =>
               /\ ret.exc = "none"
               /\ Applied(args[1], args[2], args[3], ret.val)

C13_Witness ==
    /\ call = "compute"
    /\ args = <<_division, <<0, 1>>, <<0, 1>>>>
    /\ ret.exc = "ZeroDivisionError"
    /\ ret.val = None

\* The values the claim calls not numeric.
NonNumeric(x) == x.type \in {"str", "NoneType", "list", "dict", "complex"}

\* The operation lacks compute, lacks symbol.
LacksCompute(operation) == operation.cls \in {"SymbolOnly", "object"}

LacksSymbol(operation) == operation.cls \in {"ComputeOnly", "object"}

\* The call raised TypeError with this message and created no Calculation.
Rejected(text, arg) ==
    /\ ret.exc = "TypeError"
    /\ ret.msg.text = text
    /\ ret.msg.arg = arg
    /\ ret.val = <<>>
    /\ obj = <<>>

C15_FactoryIsLazy ==
    /\ call = "create_calculation" /\ ret.exc = "none" =>
           /\ ret.calls = <<>>
           /\ calls = <<>>
           /\ obj = ret.val
           /\ obj[1]._result = None
           /\ obj[1].operand_a = float_number(args[1])
           /\ obj[1].operand_b = float_number(args[2])
    /\ /\ call = "create_calculation"
       /\ args[1].type \in {"int", "float"}
       /\ args[2].type \in {"int", "float"}
       /\ args[3] = _division
       /\ float_number(args[2])[1] = 0
       => ret.exc = "none" /\ ZeroDivisor(obj[1])
    /\ ReadResult /\ given = None /\ ZeroDivisor(args[1]) =>
           /\ ret.exc = "ZeroDivisionError"
           /\ ret.calls = <<Invocation(args[1])>>
           /\ obj[1] = args[1]
           /\ obj[1]._result = None

C15_Witness ==
    /\ call = "__str__"
    /\ given = None
    /\ args[1].operation = _division
    /\ args[1].operand_a = <<4, 1>>
    /\ args[1].operand_b = <<0, 1>>
    /\ ret.exc = "ZeroDivisionError"
    /\ Len(calls) = 1

\* The fifteen keys of the registry.
Aliases == UNION {AliasesOf(sym) : sym \in Symbols}

\* Three tokens, two valid numbers around a token that is no alias.
UnknownOperator(l) ==
    /\ Len(split(l)) = 3
    /\ NumberToken(split(l)[1])
    /\ NumberToken(split(l)[3])
    /\ lower(split(l)[2]) \notin Aliases

\* C16: a line of three tokens, two valid numbers around a token that in no
\* letter case is a key of the registry, is reported as an input error whose
\* message is "Unsupported operation", names the token and lists all fifteen
\* keys; the factory makes no Calculation, the history is unchanged and the
\* calculator keeps running.
C16_UnknownOperatorReported ==
    Read /\ UnknownOperator(line) =>
        /\ Tags(out) = <<"Input error">>
        /\ out[1].msg.text = "Unsupported operation"
        /\ out[1].msg.arg = split(line)[2]
        /\ out[1].msg.avail = Aliases
        /\ Cardinality(out[1].msg.avail) = 15
        /\ obj = <<>>
        /\ HistoryList = before
        /\ log = before
        /\ running
        /\ pc = "loop"

C16_Witness ==
    /\ Read
    /\ line = <<"5", " ", "%", "%", " ", "3">>
    /\ before # <<>>
    /\ HistoryList = before
    /\ obj = <<>>
    /\ out[1].msg.text = "Unsupported operation"
    /\ out[1].msg.arg = <<"%", "%">>

\* s without its sign.
Unsigned(s) == IF s # <<>> /\ s[1] \in {"+", "-"} THEN Tail(s) ELSE s

\* Where the exponent of s begins: the position of its first e or E, or
\* one past its end.
ExponentAt(s) ==
    IF \E i \in 1..Len(s) : s[i] \in {"e", "E"}
    THEN CHOOSE i \in 1..Len(s) :
             s[i] \in {"e", "E"} /\ \A j \in 1..(i - 1) : s[j] \notin {"e", "E"}
    ELSE Len(s) + 1

\* Digits with at most one point among them, one digit at least.
DecimalDigits(s) ==
    /\ \A i \in 1..Len(s) : IsDigit(s[i]) \/ s[i] = "."
    /\ \E i \in 1..Len(s) : IsDigit(s[i])
    /\ Cardinality({i \in 1..Len(s) : s[i] = "."}) <= 1

\* s is [sign] digits [. digits] [e [sign] digits].
NumericLiteral(s) ==
    /\ DecimalDigits(SubSeq(Unsigned(s), 1, ExponentAt(Unsigned(s)) - 1))
    /\ ExponentAt(Unsigned(s)) <= Len(Unsigned(s)) =>
           /\ Unsigned(SubSeq(Unsigned(s), ExponentAt(Unsigned(s)) + 1, Len(Unsigned(s)))) # <<>>
           /\ AllDigits(Unsigned(SubSeq(Unsigned(s), ExponentAt(Unsigned(s)) + 1,
                                        Len(Unsigned(s)))))

\* The literal s of a few digits is beyond the range of a double: a
\* mantissa that is not zero with an exponent above 308.
BeyondDouble(s) ==
    /\ ExponentAt(Unsigned(s)) < Len(Unsigned(s))
    /\ Unsigned(s)[ExponentAt(Unsigned(s)) + 1] # "-"
    /\ DecVal(Unsigned(SubSeq(Unsigned(s), ExponentAt(Unsigned(s)) + 1,
                              Len(Unsigned(s))))) > 308
    /\ \E i \in 1..(ExponentAt(Unsigned(s)) - 1) :
           IsDigit(Unsigned(s)[i]) /\ Unsigned(s)[i] # "0"

\* text is, once its surrounding whitespace is dropped, the literal of a
\* finite number.
FiniteLiteral(text) == NumericLiteral(strip(text)) /\ ~BeyondDouble(strip(text))

\* C17: validate_number returns a value, a finite one, exactly for a text
\* that without its surrounding whitespace is the literal of a finite
\* number; for any other text (empty, not a number, inf, infinity or nan with
\* or without sign, a literal beyond the range) it raises ValueError with the
\* message "'<text>' is not a valid number" holding the text as given.  The
\* operands _parse_input returns are finite.
C17_OnlyFiniteLiterals ==
    /\ call = "validate_number" =>
           /\ FiniteLiteral(args[1]) =>
                  /\ ret.exc = "none"
                  /\ ret.val # None
                  /\ IsFinite(ret.val)
           /\ ~FiniteLiteral(args[1]) =>
                  /\ ret.exc = "ValueError"
                  /\ ret.val = None
                  /\ ret.msg.text = "is not a valid number"
                  /\ ret.msg.arg = args[1]
    /\ call = "_parse_input" /\ ret.exc = "none" =>
           /\ IsFinite(ret.val[1])
           /\ IsFinite(ret.val[3])
           /\ FiniteLiteral(split(args[1])[1])
           /\ FiniteLiteral(split(args[1])[3])

C17_Witness ==
    /\ call = "validate_number"
    /\ args[1] = <<" ", "I", "N", "F", " ">>
    /\ ret.exc = "ValueError"
    /\ ret.msg.arg = <<" ", "I", "N", "F", " ">>

\* The five command words.
CommandWords ==
    { <<"h", "e", "l", "p">>, <<"h", "i", "s", "t", "o", "r", "y">>,
      <<"c", "l", "e", "a", "r">>, <<"e", "x", "i", "t">>, <<"q", "u", "i", "t">> }

\* The step reads a line that is a command word in some letter case within
\* some whitespace, and leaves the program as the plain word would.
AsPlainWord ==
    pc = "loop" /\ raised' = "none" /\ lower(strip(line')) \in CommandWords =>
        /\ heap' = run_iteration(Self, Returned(lower(strip(line')))).m.heap
        /\ history' = run_iteration(Self, Returned(lower(strip(line')))).m.history
        /\ running' = run_iteration(Self, Returned(lower(strip(line')))).m.running
        /\ out' = run_iteration(Self, Returned(lower(strip(line')))).m.out
        /\ (pc' = "done") =
               (\/ run_iteration(Self, Returned(lower(strip(line')))).brk
                \/ ~run_iteration(Self, Returned(lower(strip(line')))).m.running)

\* The last step read a line of one word that is no command word.
OtherWord == Read /\ Len(split(line)) = 1 /\ lower(strip(line)) \notin CommandWords

\* C18: a line that holds help, history, clear, exit or quit in any letter
\* case within any whitespace changes the history, the running flag and the
\* loop as the plain lower-case word does in the same state, and prints the
\* same; a line of one word that is none of the five is taken for a
\* calculation and reported as an input error.
C18_CommandsAnyCase ==
    /\ [][AsPlainWord]_vars
    /\ [](OtherWord =>
             /\ Tags(out) = <<"Input error">>
             /\ HistoryList = before
             /\ running
             /\ pc = "loop")

C18_Witness ==
    /\ Read
    /\ line = <<"Q", "u", "i", "t", "\t">>
    /\ before # <<>>
    /\ HistoryList = before
    /\ Tags(out) = <<"Goodbye!">>
    /\ ~running
    /\ pc = "done"

\* The text s reads "a symbol b = r", r being what the operation of c gives
\* for the operands a and b of c.
ShowsComputation(s, c) ==
    /\ Len(split(s)) = 5
    /\ float(split(s)[1]).exc = "none"
    /\ float(split(s)[1]).val = c.operand_a
    /\ \E sym \in Symbols : SharedInstance(sym) = c.operation /\ split(s)[2] = <<sym>>
    /\ float(split(s)[3]).exc = "none"
    /\ float(split(s)[3]).val = c.operand_b
    /\ split(s)[4] = <<"=">>
    /\ float(split(s)[5]).exc = "none"
    /\ Applied(c.operation, c.operand_a, c.operand_b, float(split(s)[5]).val)

\* The Calculation was constructed without a result, or with the result its
\* operation gives.
NoForeignResult(c) ==
    given = None \/ Applied(c.operation, c.operand_a, c.operand_b, given)

PrefixForm(l) ==
    /\ Len(split(l)) = 3
    /\ AliasToken(split(l)[1])
    /\ NumberToken(split(l)[2])
    /\ NumberToken(split(l)[3])
    /\ ~(OPERATIONS[lower(split(l)[1])] = _division /\ float(split(l)[3]).val[1] = 0)

\* C20: a line in the prefix form the banner shows, add 5 3, is computed
\* and appended to the history as the infix line 5 add 3 is.
C20_PrefixFormAccepted ==
    Read /\ PrefixForm(line) =>
        /\ Tags(out) = <<"Result">>
        /\ Len(HistoryList) = Len(before) + 1
        /\ SubSeq(HistoryList, 1, Len(before)) = before
        /\ HistoryList[Len(HistoryList)].operation = OPERATIONS[lower(split(line)[1])]
        /\ HistoryList[Len(HistoryList)].operand_a = float(split(line)[2]).val
        /\ HistoryList[Len(HistoryList)].operand_b = float(split(line)[3]).val

\* C21: add_calculation of a value that is no Calculation (a str, None, a
\* float, a list, an operation) raises TypeError and leaves the history as
\* it was: the same entries, the same length, the same last calculation.  A
\* Calculation is appended.
C21_AppendRejectsOthers ==
    call = "add_calculation" =>
        /\ args[1] \notin SampleCalculations =>
               /\ ret.exc = "TypeError"
               /\ ret.msg.text = "Must provide a Calculation instance"
               /\ HistoryList = before
               /\ log = before
               /\ CalculationHistory_len(heap, history) = Len(before)
               /\ get_last_calculation(heap, history)
                      = IF before = <<>> THEN None ELSE <<before[Len(before)]>>
        /\ args[1] \in SampleCalculations =>
               /\ ret.exc = "none"
               /\ HistoryList = Append(before, args[1])

C21_Witness ==
    /\ call = "add_calculation"
    /\ args[1] = PyNone
    /\ ret.exc = "TypeError"
    /\ before # <<>>
    /\ HistoryList = before

\* C22: whatever calculations were added and whenever the history was
\* cleared, get_last_calculation returns the calculation added last since
\* the history was created or cleared, which is the last element of the
\* list get_history returns; it returns None exactly when the history is
\* empty, as it is when created and after clear_history.  The call leaves
\* the history as it is.
C22_LastIsNewest ==
    /\ get_last_calculation(heap, history)
           = IF log = <<>> THEN None ELSE <<log[Len(log)]>>
    /\ get_last_calculation(heap, history) = None
           <=> CalculationHistory_len(heap, history) = 0
    /\ get_last_calculation(heap, history) # None =>
           get_last_calculation(heap, history)[1]
               = get_history(heap, history).heap[get_history(heap, history).ret][
                     Len(get_history(heap, history).heap[get_history(heap, history).ret])]
    /\ call \in {"__init__", "clear_history"} =>
           get_last_calculation(heap, history) = None
    /\ call = "get_last_calculation" =>
           /\ ret.val = IF log = <<>> THEN None ELSE <<log[Len(log)]>>
           /\ HistoryList = before

C22_Witness ==
    /\ call = "get_last_calculation"
    /\ Len(log) = 2
    /\ log[1] # log[2]
    /\ ret.val = <<log[2]>>
    /\ HistoryList = log

\* C23: an empty line and a line of blanks and tabs are ignored: nothing is
\* printed, no Calculation is made, the history and the running flag are as
\* before, and the loop is at its head to read the next line.
C23_BlankLineIgnored ==
    Read /\ strip(line) = <<>> =>
        /\ out = <<>>
        /\ obj = <<>>
        /\ HistoryList = before
        /\ log = before
        /\ running
        /\ pc = "loop"

C23_Witness ==
    /\ Read
    /\ line = <<" ", "\t">>
    /\ before # <<>>
    /\ HistoryList = before
    /\ out = <<>>
    /\ running
    /\ pc = "loop"

\* The last step read a line that is a calculation request: not blank, its
\* first token no command.
ReadRequest == Read /\ strip(line) # <<>> /\ ~FirstIsCommand(line)

\* The step printed one line, an input error with this message.
OneError(text, arg) ==
    /\ Len(out) = 1
    /\ out[1].tag = "Input error"
    /\ out[1].msg.text = text
    /\ out[1].msg.arg = arg

\* C24: a calculation request is examined in the order token count, first
\* operand, second operand, operator, and the step prints one error, that
\* of the first test that fails: a line of another token count is a format
\* error whatever its tokens; with three tokens an invalid first operand is
\* reported before an invalid second one, and an invalid operand before an
\* unknown operator.
C24_FirstFailingCheckReported ==
    ReadRequest =>
        /\ Len(split(line)) # 3 =>
               OneError("Please provide exactly three parts: number operation number", <<>>)
        /\ Len(split(line)) = 3 /\ ~FiniteLiteral(split(line)[1]) =>
               OneError("is not a valid number", split(line)[1])
        /\ /\ Len(split(line)) = 3
           /\ FiniteLiteral(split(line)[1])
           /\ ~FiniteLiteral(split(line)[3])
           => OneError("is not a valid number", split(line)[3])
        /\ /\ Len(split(line)) = 3
           /\ FiniteLiteral(split(line)[1])
           /\ FiniteLiteral(split(line)[3])
           /\ lower(split(line)[2]) \notin Aliases
           => OneError("Unsupported operation", split(line)[2])
        /\ /\ Len(split(line)) = 3
           /\ FiniteLiteral(split(line)[1])
           /\ FiniteLiteral(split(line)[3])
           /\ lower(split(line)[2]) \in Aliases
           => \A i \in 1..Len(out) : out[i].tag # "Input error"

C24_Witness ==
    /\ Read
    /\ line = <<"a", "b", "c", " ", "%", " ", "3">>
    /\ before # <<>>
    /\ Len(out) = 1
    /\ out[1].msg.text = "is not a valid number"
    /\ out[1].msg.arg = <<"a", "b", "c">>

\* The step reads a well-formed calculation that does not divide by zero and
\* puts one entry at the end of the history, the earlier ones staying.
Extends ==
    /\ raised' = "none"
    /\ WellFormed(line')
    /\ ~DividesByZero(line')
    /\ Len(HistoryList') = Len(HistoryList) + 1
    /\ SubSeq(HistoryList', 1, Len(HistoryList)) = HistoryList
    /\ Tags(out') = <<"Result">>

\* The step reads the clear command and leaves the history empty.
Clears ==
    /\ raised' = "none"
    /\ lower(strip(line')) = <<"c", "l", "e", "a", "r">>
    /\ HistoryList' = <<>>

\* What a step does to the history.
HistoryStep ==
    /\ history' = history
    /\ HistoryList' = HistoryList \/ Extends \/ Clears
    /\ pc = "loop" /\ raised' = "none" /\ WellFormed(line') /\ ~DividesByZero(line') =>
           Extends
    /\ /\ pc = "loop"
       /\ raised' = "none"
       /\ lower(strip(line')) \in CommandWords \ {<<"c", "l", "e", "a", "r">>}
       => HistoryList' = HistoryList

\* C25: over any sequence of lines the history changes in two ways only: a
\* successful calculation puts one entry at its end and keeps the earlier
\* entries where they are, and clear empties it.  No step removes, moves or
\* replaces an entry; help, history, exit and quit leave it as it is.
C25_HistoryGrowsOrClears == [][HistoryStep]_vars

C25_Witness ==
    /\ Read
    /\ WellFormed(line)
    /\ before # <<>>
    /\ log = HistoryList
    /\ Len(HistoryList) = Len(before) + 1
    /\ SubSeq(HistoryList, 1, Len(before)) = before
    /\ HistoryList[Len(HistoryList)] # before[Len(before)]

\* The Calculation c holds its result, the one its operation gives for its
\* operands, and formatting it raises nothing, computes nothing and leaves
\* it as it is.
Computed(c) ==
    /\ c._result # None
    /\ ~ZeroDivisor(c)
    /\ Applied(c.operation, c.operand_a, c.operand_b, c._result)
    /\ Calculation_result(c).exc = "none"
    /\ Calculation_result(c).calls = <<>>
    /\ Calculation_str(c).exc = "none"
    /\ Calculation_str(c).calls = <<>>
    /\ Calculation_str(c).self = c

\* C26: in every state of a session each Calculation of the history holds
\* its result, which is its operation applied to its operands; so the
\* history command prints every entry, raises no error and leaves every
\* entry as it is.
C26_HistoryHoldsComputed ==
    /\ \A i \in 1..Len(HistoryList) : Computed(HistoryList[i])
    /\ Read /\ lower(strip(line)) = <<"h", "i", "s", "t", "o", "r", "y">> =>
           /\ Listing(out, before)
           /\ \A i \in 1..Len(out) :
                  out[i].tag \notin {"Unexpected error", "Math error", "Error"}
           /\ HistoryList = before
           /\ running
           /\ pc = "loop"

C26_Witness ==
    /\ Read
    /\ lower(strip(line)) = <<"h", "i", "s", "t", "o", "r", "y">>
    /\ Len(before) = 2
    /\ before[1].operation = _division
    /\ before[1]._result = <<5, 2>>
    /\ HistoryList = before
    /\ Len(out) = 4
    /\ out[2].text = <<"5", ".", "0", " ", "/", " ", "2", ".", "0", " ", "=", " ",
                       "2", ".", "5">>

\* The read or the formatting r of the Calculation c raised the division
\* error after one invocation of compute, and c is as it was.
FailsAgain(r, c) ==
    /\ r.exc = "ZeroDivisionError"
    /\ r.msg.text = "Cannot divide by zero"
    /\ r.calls = <<Invocation(c)>>
    /\ r.self = c

\* C27: a read of result, or a formatting, that raises ZeroDivisionError
\* returns nothing and leaves the Calculation as it was: no result stored,
\* the same operands and operation.  Each such read invoked compute, once,
\* and the next read and the next formatting invoke it again and raise the
\* same error.
C27_FailedReadStoresNothing ==
    ReadResult /\ ret.exc = "ZeroDivisionError" =>
        /\ ZeroDivisor(args[1])
        /\ args[1]._result = None
        /\ ret.val \in {None, <<>>}
        /\ FailsAgain(ret, args[1])
        /\ obj[1] = args[1]
        /\ obj[1]._result = None
        /\ Len(calls) >= 1
        /\ \A i \in 1..Len(calls) : calls[i] = Invocation(obj[1])
        /\ FailsAgain(Calculation_result(obj[1]), obj[1])
        /\ FailsAgain(Calculation_str(obj[1]), obj[1])

C27_Witness ==
    /\ call = "result"
    /\ ret.exc = "ZeroDivisionError"
    /\ args[1].operand_a = <<0, 1>>
    /\ args[1].operand_b = <<0, 1>>
    /\ obj[1]._result = None
    /\ Len(calls) = 2
    /\ calls[1] = calls[2]

====
